---- MODULE Spec2Model ----
(***************************************************************************)
(* Model of the segregated-free-list allocator of src/allocator.c.         *)
(*                                                                         *)
(* Memory is modelled at the granularity the engine uses it: `hdr` maps    *)
(* the address of every block header that is live in memory (heap blocks   *)
(* and mapped blocks) to the five header fields.  Pointers are integers,   *)
(* NULL is 0.  size_t arithmetic is done modulo WordMod.                   *)
(***************************************************************************)
EXTENDS Integers, Sequences, FiniteSets, TLC

\* ---------------------------------------------------------------- bounds
\* width of size_t in the model (the build has 64; every size computation
\* of the engine is reduced modulo 2^WordBits)
WordBits == 24
\* the OS refuses to move the program break beyond MaxBrk increments
MaxBrk == 2
\* the OS refuses a mapping when MaxMaps mappings are live
MaxMaps == 2
\* number of calls and payload writes in one run
MaxOps == 4
\* test_splitting starts after fewer than MaxPre earlier calls
MaxPre == 2
\* the initial program break, in units of the alignment
BrkUnits == 256
\* threads that call the guarded operations
NumThreads == 2
\* guarded calls in one run of the threads
MaxCalls == 3

WordMod == 2^WordBits
SIZE_MAX == WordMod - 1

\* ------------------------------------------------------ program constants
NULL == 0
MIN_BLOCK_SIZE == 32
ALIGNMENT == 16
NUM_SIZE_CLASSES == 10
MMAP_THRESHOLD == 128 * 1024
BRK_INCREMENT == 64 * 1024
\* sizeof(block_header_t) on LP64: 8 + 8 + 8 + 4 + 4
HeaderSize == 32

\* the initial break and the addresses the OS hands out for mappings
HeapBase == ALIGNMENT * BrkUnits
MmapBase == 4 * WordMod
MmapSlot(i) == MmapBase + i * WordMod

\* ------------------------------------------------------------ memory model
Put(h, a, r) == [x \in (DOMAIN h) \cup {a} |-> IF x = a THEN r ELSE h[x]]
Drop(h, a) == [x \in (DOMAIN h) \ {a} |-> h[x]]

ZeroStats ==
  [total_allocated |-> 0, total_freed |-> 0, current_usage |-> 0,
   num_allocations |-> 0, num_frees |-> 0, num_splits |-> 0,
   num_coalesces |-> 0]

\* the engine's globals after program start, and the memory holding headers
InitMachine ==
  [hdr |-> [x \in {} |-> 0],
   free_lists |-> [i \in 0..(NUM_SIZE_CLASSES - 1) |-> NULL],
   stats |-> ZeroStats,
   heap_start |-> NULL,
   heap_end |-> NULL,
   brk |-> HeapBase]

\* ------------------------------------------------------------- the engine
\* mutant of align_size: the size is not rounded
align_size_none(size) == size

align_size(size) ==
  LET s == (size + ALIGNMENT - 1) % WordMod IN s - (s % ALIGNMENT)

get_size_class(size) ==
  IF size <= 32 THEN 0
  ELSE IF size <= 64 THEN 1
  ELSE IF size <= 128 THEN 2
  ELSE IF size <= 256 THEN 3
  ELSE IF size <= 512 THEN 4
  ELSE IF size <= 1024 THEN 5
  ELSE IF size <= 2048 THEN 6
  ELSE IF size <= 4096 THEN 7
  ELSE IF size <= 8192 THEN 8
  ELSE 9

remove_from_free_list(m, block) ==
  LET class_idx == get_size_class(m.hdr[block].size)
      h0 == m.hdr
      h1 == IF h0[block].prev # NULL
            THEN [h0 EXCEPT ![h0[block].prev].next = h0[block].next]
            ELSE h0
      fl == IF h0[block].prev # NULL
            THEN m.free_lists
            ELSE [m.free_lists EXCEPT ![class_idx] = h0[block].next]
      h2 == IF h1[block].next # NULL
            THEN [h1 EXCEPT ![h1[block].next].prev = h1[block].prev]
            ELSE h1
      h3 == [h2 EXCEPT ![block].next = NULL, ![block].prev = NULL]
  IN [m EXCEPT !.hdr = h3, !.free_lists = fl]

add_to_free_list(m, block) ==
  LET class_idx == get_size_class(m.hdr[block].size)
      head == m.free_lists[class_idx]
      h1 == [m.hdr EXCEPT ![block].next = head, ![block].prev = NULL]
      h2 == IF head # NULL THEN [h1 EXCEPT ![head].prev = block] ELSE h1
      h3 == [h2 EXCEPT ![block].is_free = 1]
  IN [m EXCEPT !.hdr = h3, !.free_lists = [@ EXCEPT ![class_idx] = block]]

\* mutant of coalesce: merges the forward neighbour once, without repeating
coalesce_once(m, block) ==
  IF block = NULL \/ m.hdr[block].is_mmap # 0 THEN m
  ELSE LET block_end == block + m.hdr[block].size IN
    IF block_end >= m.heap_end \/ block_end < m.heap_start THEN m
    ELSE IF block_end + HeaderSize > m.heap_end THEN m
    ELSE IF m.hdr[block_end].is_free # 0 /\ m.hdr[block_end].is_mmap = 0
      THEN LET m1 == remove_from_free_list(m, block_end)
               sz == (m1.hdr[block].size + m1.hdr[block_end].size) % WordMod
           IN [m1 EXCEPT
                 !.hdr = Drop([m1.hdr EXCEPT ![block].size = sz], block_end),
                 !.stats.num_coalesces = (@ + 1) % WordMod]
      ELSE m

RECURSIVE coalesce(_, _)
coalesce(m, block) ==
  IF block = NULL \/ m.hdr[block].is_mmap # 0 THEN m
  ELSE LET block_end == block + m.hdr[block].size IN
    IF block_end >= m.heap_end \/ block_end < m.heap_start THEN m
    ELSE IF block_end + HeaderSize > m.heap_end THEN m
    ELSE IF m.hdr[block_end].is_free # 0 /\ m.hdr[block_end].is_mmap = 0
      THEN LET m1 == remove_from_free_list(m, block_end)
               sz == (m1.hdr[block].size + m1.hdr[block_end].size) % WordMod
               \* the successor's header becomes payload of the merged block
               m2 == [m1 EXCEPT
                        !.hdr = Drop([m1.hdr EXCEPT ![block].size = sz], block_end),
                        !.stats.num_coalesces = (@ + 1) % WordMod]
           IN coalesce(m2, block)
      ELSE m

\* coalesce(block) never returns: the block is its own successor and free
coalesce_diverges(m, block) ==
  /\ m.hdr[block].is_mmap = 0
  /\ m.hdr[block].size = 0
  /\ block < m.heap_end /\ block >= m.heap_start
  /\ block + HeaderSize <= m.heap_end

split_block(m, block, size) ==
  LET total_size == align_size((size + HeaderSize) % WordMod)
  IN IF m.hdr[block].size >= (total_size + HeaderSize + MIN_BLOCK_SIZE) % WordMod
     THEN LET new_block == block + total_size
              h1 == Put(m.hdr, new_block,
                        [size |-> (m.hdr[block].size - total_size) % WordMod,
                         next |-> NULL, prev |-> NULL,
                         is_free |-> 1, is_mmap |-> 0])
              h2 == [h1 EXCEPT ![block].size = total_size]
              m1 == add_to_free_list([m EXCEPT !.hdr = h2], new_block)
          IN [m1 EXCEPT !.stats.num_splits = (@ + 1) % WordMod]
     ELSE m

\* mutant of expand_heap: grows the heap by the rounded request only
expand_heap_exact(m, size, brk_ok) ==
  LET alloc_size == align_size(size)
      old_brk == m.brk
  IN IF ~brk_ok THEN [m |-> m, ret |-> NULL]
     ELSE [m |-> [m EXCEPT
                    !.brk = old_brk + alloc_size,
                    !.heap_start = IF @ = NULL THEN old_brk ELSE @,
                    !.heap_end = old_brk + alloc_size,
                    !.hdr = Put(@, old_brk,
                                [size |-> alloc_size, next |-> NULL, prev |-> NULL,
                                 is_free |-> 1, is_mmap |-> 0])],
           ret |-> old_brk]

\* brk_ok: the OS grants sbrk(alloc_size)
expand_heap(m, size, brk_ok) ==
  LET alloc_size == IF size < BRK_INCREMENT THEN BRK_INCREMENT ELSE align_size(size)
      old_brk == m.brk
  IN IF ~brk_ok THEN [m |-> m, ret |-> NULL]
     ELSE [m |-> [m EXCEPT
                    !.brk = old_brk + alloc_size,
                    !.heap_start = IF @ = NULL THEN old_brk ELSE @,
                    !.heap_end = old_brk + alloc_size,
                    !.hdr = Put(@, old_brk,
                                [size |-> alloc_size, next |-> NULL, prev |-> NULL,
                                 is_free |-> 1, is_mmap |-> 0])],
           ret |-> old_brk]

\* mutant of walk_list: rejects a block whose size equals the request
RECURSIVE walk_list_strict(_, _, _)
walk_list_strict(m, current, size) ==
  IF current = NULL THEN NULL
  ELSE IF m.hdr[current].is_free # 0 /\ m.hdr[current].size > size THEN current
  ELSE walk_list_strict(m, m.hdr[current].next, size)

RECURSIVE walk_list(_, _, _)
walk_list(m, current, size) ==
  IF current = NULL THEN NULL
  ELSE IF m.hdr[current].is_free # 0 /\ m.hdr[current].size >= size THEN current
  ELSE walk_list(m, m.hdr[current].next, size)

RECURSIVE find_from_class(_, _, _)
find_from_class(m, i, size) ==
  IF i >= NUM_SIZE_CLASSES THEN NULL
  ELSE LET r == walk_list(m, m.free_lists[i], size)
       IN IF r # NULL THEN r ELSE find_from_class(m, i + 1, size)

find_free_block(m, size) == find_from_class(m, get_size_class(size), size)

\* ------------------------------------------------------------ the OS model
MAP_FAILED == -1

\* sbrk(alloc_size): granted unless the OS refuses or the break limit is reached
os_sbrk(m, granted) ==
  granted /\ (m.brk - HeapBase) < MaxBrk * BRK_INCREMENT

\* mmap(NULL, total_size, ...): a fresh page-aligned region, or MAP_FAILED
os_mmap(m, granted) ==
  LET free == {i \in 0..(MaxMaps - 1) : MmapSlot(i) \notin DOMAIN m.hdr}
  IN IF granted /\ free # {}
     THEN MmapSlot(CHOOSE i \in free : \A j \in free : i <= j)
     ELSE MAP_FAILED

\* ------------------------------------------------------- public operations
\* mutant of mem_malloc: the allocation is counted before the heap is extended
mem_malloc_counts_first(m, size, granted) ==
  IF size = 0 THEN [m |-> m, ret |-> NULL]
  ELSE LET total_size == align_size((size + HeaderSize) % WordMod) IN
    IF total_size >= MMAP_THRESHOLD
    THEN LET ptr == os_mmap(m, granted) IN
         IF ptr = MAP_FAILED THEN [m |-> m, ret |-> NULL]
         ELSE [m |-> [m EXCEPT
                        !.hdr = Put(@, ptr,
                                    [size |-> total_size, next |-> NULL,
                                     prev |-> NULL, is_free |-> 0, is_mmap |-> 1]),
                        !.stats.total_allocated = (@ + total_size) % WordMod,
                        !.stats.current_usage = (@ + total_size) % WordMod,
                        !.stats.num_allocations = (@ + 1) % WordMod],
               ret |-> ptr + HeaderSize]
    ELSE LET found == find_free_block(m, total_size)
             e == IF found = NULL
                  THEN expand_heap(m, total_size, os_sbrk(m, granted))
                  ELSE [m |-> m, ret |-> found]
         IN IF e.ret = NULL
            THEN [m |-> [e.m EXCEPT !.stats.num_allocations = (@ + 1) % WordMod],
                  ret |-> NULL]
            ELSE LET block == e.ret
                     m1 == remove_from_free_list(e.m, block)
                     m2 == split_block(m1, block, size)
                     m3 == [m2 EXCEPT !.hdr[block].is_free = 0]
                     bsz == m3.hdr[block].size
                 IN [m |-> [m3 EXCEPT
                              !.stats.total_allocated = (@ + bsz) % WordMod,
                              !.stats.current_usage = (@ + bsz) % WordMod,
                              !.stats.num_allocations = (@ + 1) % WordMod],
                     ret |-> block + HeaderSize]

\* granted: the answer of the OS to the one request this call may make
mem_malloc(m, size, granted) ==
  IF size = 0 THEN [m |-> m, ret |-> NULL]
  ELSE LET total_size == align_size((size + HeaderSize) % WordMod) IN
    IF total_size >= MMAP_THRESHOLD
    THEN LET ptr == os_mmap(m, granted) IN
         IF ptr = MAP_FAILED THEN [m |-> m, ret |-> NULL]
         ELSE [m |-> [m EXCEPT
                        !.hdr = Put(@, ptr,
                                    [size |-> total_size, next |-> NULL,
                                     prev |-> NULL, is_free |-> 0, is_mmap |-> 1]),
                        !.stats.total_allocated = (@ + total_size) % WordMod,
                        !.stats.current_usage = (@ + total_size) % WordMod,
                        !.stats.num_allocations = (@ + 1) % WordMod],
               ret |-> ptr + HeaderSize]
    ELSE LET found == find_free_block(m, total_size)
             e == IF found = NULL
                  THEN expand_heap(m, total_size, os_sbrk(m, granted))
                  ELSE [m |-> m, ret |-> found]
         IN IF e.ret = NULL THEN [m |-> e.m, ret |-> NULL]
            ELSE LET block == e.ret
                     m1 == remove_from_free_list(e.m, block)
                     m2 == split_block(m1, block, size)
                     m3 == [m2 EXCEPT !.hdr[block].is_free = 0]
                     bsz == m3.hdr[block].size
                 IN [m |-> [m3 EXCEPT
                              !.stats.total_allocated = (@ + bsz) % WordMod,
                              !.stats.current_usage = (@ + bsz) % WordMod,
                              !.stats.num_allocations = (@ + 1) % WordMod],
                     ret |-> block + HeaderSize]

\* mutant of mem_free: the mapped path forgets to lower current_usage
mem_free_keeps_usage(m, ptr) ==
  IF ptr = NULL THEN m
  ELSE LET block == ptr - HeaderSize
           bsz == m.hdr[block].size
       IN IF m.hdr[block].is_mmap # 0
          THEN [m EXCEPT
                  !.stats.total_freed = (@ + bsz) % WordMod,
                  !.stats.num_frees = (@ + 1) % WordMod,
                  !.hdr = Drop(@, block)]
          ELSE LET m1 == [m EXCEPT
                            !.stats.total_freed = (@ + bsz) % WordMod,
                            !.stats.current_usage = (@ - bsz) % WordMod,
                            !.stats.num_frees = (@ + 1) % WordMod]
                   m2 == [m1 EXCEPT !.hdr[block].is_free = 1]
                   m3 == coalesce(m2, block)
               IN add_to_free_list(m3, block)

mem_free(m, ptr) ==
  IF ptr = NULL THEN m
  ELSE LET block == ptr - HeaderSize
           bsz == m.hdr[block].size
           m1 == [m EXCEPT
                    !.stats.total_freed = (@ + bsz) % WordMod,
                    !.stats.current_usage = (@ - bsz) % WordMod,
                    !.stats.num_frees = (@ + 1) % WordMod]
       IN IF m.hdr[block].is_mmap # 0
          THEN [m1 EXCEPT !.hdr = Drop(@, block)]
          ELSE LET m2 == [m1 EXCEPT !.hdr[block].is_free = 1]
                   m3 == coalesce(m2, block)
               IN add_to_free_list(m3, block)

\* mem_free(ptr) never returns
free_diverges(m, ptr) ==
  ptr # NULL /\ coalesce_diverges(m, ptr - HeaderSize)

\* nmemb * size modulo WordMod, by doubling
RECURSIVE mul_size(_, _)
mul_size(a, b) ==
  IF b = 0 THEN 0
  ELSE (2 * mul_size(a, b \div 2) + (IF b % 2 = 1 THEN a ELSE 0)) % WordMod

\* mutant of mem_calloc: the overflow check compares the product with a factor
mem_calloc_weak_check(m, nmemb, size, granted) ==
  IF nmemb = 0 \/ size = 0 THEN [m |-> m, ret |-> NULL, zeroed |-> 0]
  ELSE LET total == mul_size(nmemb, size) IN
    IF total < size THEN [m |-> m, ret |-> NULL, zeroed |-> 0]
    ELSE LET r == mem_malloc(m, total, granted)
         IN [m |-> r.m, ret |-> r.ret,
             zeroed |-> IF r.ret # NULL THEN total ELSE 0]

\* mutant of mem_calloc: the payload is handed out as mem_malloc left it
mem_calloc_no_clear(m, nmemb, size, granted) ==
  IF nmemb = 0 \/ size = 0 THEN [m |-> m, ret |-> NULL, zeroed |-> 0]
  ELSE LET total == mul_size(nmemb, size) IN
    IF total \div nmemb # size THEN [m |-> m, ret |-> NULL, zeroed |-> 0]
    ELSE LET r == mem_malloc(m, total, granted)
         IN [m |-> r.m, ret |-> r.ret, zeroed |-> 0]

\* zeroed: the number of payload bytes memset clears at ret
mem_calloc(m, nmemb, size, granted) ==
  IF nmemb = 0 \/ size = 0 THEN [m |-> m, ret |-> NULL, zeroed |-> 0]
  ELSE LET total == mul_size(nmemb, size) IN
    IF total \div nmemb # size THEN [m |-> m, ret |-> NULL, zeroed |-> 0]
    ELSE LET r == mem_malloc(m, total, granted)
         IN [m |-> r.m, ret |-> r.ret,
             zeroed |-> IF r.ret # NULL THEN total ELSE 0]

\* mutant of mem_realloc: releases the old block before allocating the new one
mem_realloc_frees_first(m, ptr, size, granted) ==
  IF ptr = NULL
  THEN LET r == mem_malloc(m, size, granted)
       IN [m |-> r.m, ret |-> r.ret, copied |-> 0]
  ELSE IF size = 0 THEN [m |-> mem_free(m, ptr), ret |-> NULL, copied |-> 0]
  ELSE LET block == ptr - HeaderSize
           old_size == (m.hdr[block].size - HeaderSize) % WordMod
       IN IF old_size >= size THEN [m |-> m, ret |-> ptr, copied |-> 0]
          ELSE LET r == mem_malloc(mem_free(m, ptr), size, granted)
               IN IF r.ret = NULL THEN [m |-> r.m, ret |-> NULL, copied |-> 0]
                  ELSE [m |-> r.m, ret |-> r.ret, copied |-> old_size]

\* mutant of mem_realloc: keeps the block only when it is strictly larger
mem_realloc_strict(m, ptr, size, granted) ==
  IF ptr = NULL
  THEN LET r == mem_malloc(m, size, granted)
       IN [m |-> r.m, ret |-> r.ret, copied |-> 0]
  ELSE IF size = 0 THEN [m |-> mem_free(m, ptr), ret |-> NULL, copied |-> 0]
  ELSE LET block == ptr - HeaderSize
           old_size == (m.hdr[block].size - HeaderSize) % WordMod
       IN IF old_size > size THEN [m |-> m, ret |-> ptr, copied |-> 0]
          ELSE LET r == mem_malloc(m, size, granted)
               IN IF r.ret = NULL THEN [m |-> r.m, ret |-> NULL, copied |-> 0]
                  ELSE [m |-> mem_free(r.m, ptr), ret |-> r.ret, copied |-> old_size]

\* mutant of mem_realloc: a resize to 0 returns NULL without releasing the block
mem_realloc_zero_keeps(m, ptr, size, granted) ==
  IF ptr = NULL
  THEN LET r == mem_malloc(m, size, granted)
       IN [m |-> r.m, ret |-> r.ret, copied |-> 0]
  ELSE IF size = 0 THEN [m |-> m, ret |-> NULL, copied |-> 0]
  ELSE LET block == ptr - HeaderSize
           old_size == (m.hdr[block].size - HeaderSize) % WordMod
       IN IF old_size >= size THEN [m |-> m, ret |-> ptr, copied |-> 0]
          ELSE LET r == mem_malloc(m, size, granted)
               IN IF r.ret = NULL THEN [m |-> r.m, ret |-> NULL, copied |-> 0]
                  ELSE [m |-> mem_free(r.m, ptr), ret |-> r.ret, copied |-> old_size]

\* copied: the number of payload bytes memcpy moves from ptr to ret
mem_realloc(m, ptr, size, granted) ==
  IF ptr = NULL
  THEN LET r == mem_malloc(m, size, granted)
       IN [m |-> r.m, ret |-> r.ret, copied |-> 0]
  ELSE IF size = 0 THEN [m |-> mem_free(m, ptr), ret |-> NULL, copied |-> 0]
  ELSE LET block == ptr - HeaderSize
           old_size == (m.hdr[block].size - HeaderSize) % WordMod
       IN IF old_size >= size THEN [m |-> m, ret |-> ptr, copied |-> 0]
          ELSE LET r == mem_malloc(m, size, granted)
               IN IF r.ret = NULL THEN [m |-> r.m, ret |-> NULL, copied |-> 0]
                  ELSE [m |-> mem_free(r.m, ptr), ret |-> r.ret, copied |-> old_size]

\* memset(ptr, 0, total) of mem_calloc writes beyond the block behind ptr
\* (into the pages after the heap): the call does not return
calloc_overruns(m, nmemb, size, granted) ==
  LET r == mem_calloc(m, nmemb, size, granted)
  IN r.ret # NULL /\ r.zeroed > r.m.hdr[r.ret - HeaderSize].size - HeaderSize

\* mem_realloc(ptr, size) never returns
realloc_diverges(m, ptr, size, granted) ==
  /\ ptr # NULL
  /\ \/ size = 0 /\ free_diverges(m, ptr)
     \/ /\ size # 0
        /\ (m.hdr[ptr - HeaderSize].size - HeaderSize) % WordMod < size
        /\ mem_malloc(m, size, granted).ret # NULL
        /\ free_diverges(mem_malloc(m, size, granted).m, ptr)

\* mutant of mem_reset: the counters are zeroed, the free lists are kept
mem_reset_keeps_lists(m) ==
  [m EXCEPT !.stats = ZeroStats]

mem_reset(m) ==
  [m EXCEPT !.stats = ZeroStats,
            !.free_lists = [i \in 0..(NUM_SIZE_CLASSES - 1) |-> NULL]]

\* ------------------------------------------------------------ the program
VARIABLES
  hdr,          \* memory: address of a block header -> its five fields
  free_lists,   \* static block_header_t* free_lists[NUM_SIZE_CLASSES]
  stats,        \* static mem_stats_t stats
  heap_start,   \* static void* heap_start
  heap_end,     \* static void* heap_end
  brk,          \* the program break kept by the OS
  owned,        \* the caller: address it owns -> requested size and contents
  last,         \* the call (or payload write) that ended last, with its result
  pc,           \* "run", the position inside test_splitting, or "corrupt"
  steps,        \* calls and payload writes made so far
  epoch_start,  \* the break at program start or at the last mem_reset
  crashed,      \* an engine call did not return
  written,      \* payload addresses a caller has filled with non-zero bytes
  mutex,        \* static pthread_mutex_t allocator_mutex: its owner, or NULL
  thr,          \* each thread: its position in a guarded operation, the call
  shadow        \* the guarded calls run one by one in the order of locking

vars == <<hdr, free_lists, stats, heap_start, heap_end, brk,
          owned, last, pc, steps, epoch_start, crashed, written,
          mutex, thr, shadow>>

engine == <<hdr, free_lists, stats, heap_start, heap_end, brk>>

\* the state of the guarded operations of src/allocator_ts.c
guarded == <<mutex, thr, shadow>>

Threads == 1..NumThreads

Machine ==
  [hdr |-> hdr, free_lists |-> free_lists, stats |-> stats,
   heap_start |-> heap_start, heap_end |-> heap_end, brk |-> brk]

Commit(m) ==
  /\ hdr' = m.hdr
  /\ free_lists' = m.free_lists
  /\ stats' = m.stats
  /\ heap_start' = m.heap_start
  /\ heap_end' = m.heap_end
  /\ brk' = m.brk

\* request sizes the caller uses: the smallest, sizes served from a 64 KiB
\* extension, a size that needs a larger extension, a size that is mapped, and
\* two sizes that make size + sizeof(header) wrap
MallocSizes == {1, 100, 50000, 70000, 200000, SIZE_MAX - 31, SIZE_MAX}
\* the last one makes size + sizeof(header) wrap inside mem_realloc
ReallocSizes == {0, 100, 50000, 200000, SIZE_MAX}
\* counts and element sizes: the test's, a product that wraps, and a product
\* that fits while mem_malloc's size + sizeof(header) wraps
CallocArgs == {<<10, 50>>, <<WordMod \div 4096 + 1, 4096>>, <<1, SIZE_MAX>>}

\* a guarded call: the operation, its arguments and the answer of the OS
GuardedCall(op, k, n, p, g) == [op |-> op, k |-> k, n |-> n, p |-> p, g |-> g]
NoCall == GuardedCall("none", 0, 0, NULL, FALSE)

Call(op, n, p, res, bsize, mapped) ==
  [op |-> op, n |-> n, p |-> p, res |-> res, bsize |-> bsize, mapped |-> mapped]

\* size and kind of the block behind a caller's address, before the call
BlockSize(p) == IF p = NULL THEN 0 ELSE hdr[p - HeaderSize].size
BlockMapped(p) == p # NULL /\ hdr[p - HeaderSize].is_mmap # 0

Init ==
  /\ hdr = InitMachine.hdr
  /\ free_lists = InitMachine.free_lists
  /\ stats = InitMachine.stats
  /\ heap_start = InitMachine.heap_start
  /\ heap_end = InitMachine.heap_end
  /\ brk = InitMachine.brk
  /\ owned = [x \in {} |-> 0]
  /\ last = Call("start", 0, NULL, NULL, 0, FALSE)
  /\ pc = "run"
  /\ steps = 0
  /\ epoch_start = HeapBase
  /\ crashed = FALSE
  /\ written = {}
  /\ mutex = NULL
  /\ thr = [t \in Threads |-> [pc |-> "idle", call |-> NoCall, snap |-> InitMachine,
                                res |-> NULL, expect |-> NULL, turn |-> 0]]
  /\ shadow = [m |-> InitMachine, turns |-> 0]

Running == pc = "run" /\ ~crashed /\ steps < MaxOps

\* p = mem_malloc(n)
Malloc(n, granted) ==
  /\ Running
  /\ \E r \in {mem_malloc(Machine, n, granted)} :
       /\ Commit(r.m)
       /\ owned' = IF r.ret # NULL
                   THEN Put(owned, r.ret, [req |-> n, data |-> "unspecified"])
                   ELSE owned
       /\ last' = Call("malloc", n, NULL, r.ret, 0, FALSE)
  /\ steps' = steps + 1
  /\ UNCHANGED <<pc, epoch_start, crashed, written>>
  /\ UNCHANGED guarded

\* p = mem_calloc(nmemb, size)
Calloc(nmemb, size, granted) ==
  /\ Running
  /\ ~calloc_overruns(Machine, nmemb, size, granted)
  /\ \E r \in {mem_calloc(Machine, nmemb, size, granted)} :
       /\ Commit(r.m)
       /\ owned' = IF r.ret # NULL
                   THEN Put(owned, r.ret,
                            [req |-> nmemb * size,
                             data |-> IF r.zeroed >= nmemb * size
                                      THEN "zero" ELSE "unspecified"])
                   ELSE owned
       /\ last' = Call("calloc", nmemb * size, NULL, r.ret, 0, FALSE)
  /\ steps' = steps + 1
  /\ UNCHANGED <<pc, epoch_start, crashed, written>>
  /\ UNCHANGED guarded

\* mem_calloc(nmemb, size) whose memset runs off the heap
CallocOverruns(nmemb, size, granted) ==
  /\ Running
  /\ calloc_overruns(Machine, nmemb, size, granted)
  /\ crashed' = TRUE
  /\ UNCHANGED <<engine, owned, last, pc, steps, epoch_start, written>>
  /\ UNCHANGED guarded

\* mem_free(p), p an address the caller owns or NULL
Free(p) ==
  /\ Running
  /\ p \in (DOMAIN owned) \cup {NULL}
  /\ ~free_diverges(Machine, p)
  /\ \E m \in {mem_free(Machine, p)} : Commit(m)
  /\ owned' = IF p = NULL THEN owned ELSE Drop(owned, p)
  /\ last' = Call("free", 0, p, NULL, BlockSize(p), BlockMapped(p))
  /\ steps' = steps + 1
  /\ UNCHANGED <<pc, epoch_start, crashed, written>>
  /\ UNCHANGED guarded

\* mem_free(p) on a block whose coalescing never ends
FreeDiverges(p) ==
  /\ Running
  /\ p \in DOMAIN owned
  /\ free_diverges(Machine, p)
  /\ crashed' = TRUE
  /\ UNCHANGED <<engine, owned, last, pc, steps, epoch_start, written>>
  /\ UNCHANGED guarded

\* memcpy(new_ptr, ptr, copied) writes beyond the block behind new_ptr
copy_overruns(m, new_ptr, copied) ==
  /\ new_ptr # NULL /\ copied > 0
  /\ copied > m.hdr[new_ptr - HeaderSize].size - HeaderSize

\* q = mem_realloc(p, n), p an address the caller owns or NULL.  The payload
\* at q holds what the caller had at p when memcpy moved all of it.  When
\* memcpy writes beyond the new block the headers behind it are overwritten
\* with payload bytes: the call returns, and the run is not followed further.
Realloc(p, n, granted) ==
  /\ Running
  /\ p \in (DOMAIN owned) \cup {NULL}
  /\ ~realloc_diverges(Machine, p, n, granted)
  /\ \E r \in {mem_realloc(Machine, p, n, granted)} :
       /\ Commit(r.m)
       /\ owned' =
            IF p = NULL
            THEN IF r.ret # NULL
                 THEN Put(owned, r.ret, [req |-> n, data |-> "unspecified"])
                 ELSE owned
            ELSE IF n = 0 THEN Drop(owned, p)
            ELSE IF r.ret = NULL THEN owned
            ELSE IF r.ret = p THEN [owned EXCEPT ![p].req = n]
            ELSE Put(Drop(owned, p), r.ret,
                     [req |-> n,
                      data |-> IF r.copied >= owned[p].req
                               THEN owned[p].data ELSE "unspecified"])
       /\ last' = Call("realloc", n, p, r.ret, BlockSize(p), BlockMapped(p))
       /\ pc' = IF r.ret # p /\ copy_overruns(r.m, r.ret, r.copied)
                THEN "corrupt" ELSE pc
       /\ written' = IF /\ p # NULL /\ r.ret \notin {NULL, p} /\ r.copied > 0
                         /\ owned[p].data = "pattern"
                      THEN written \cup {r.ret} ELSE written
  /\ steps' = steps + 1
  /\ UNCHANGED <<epoch_start, crashed>>
  /\ UNCHANGED guarded

\* mem_realloc(p, n) whose inner mem_free never ends
ReallocDiverges(p, n, granted) ==
  /\ Running
  /\ p \in DOMAIN owned
  /\ realloc_diverges(Machine, p, n, granted)
  /\ crashed' = TRUE
  /\ UNCHANGED <<engine, owned, last, pc, steps, epoch_start, written>>
  /\ UNCHANGED guarded

\* mem_reset(): every address handed out before is invalidated
Reset ==
  /\ Running
  /\ Commit(mem_reset(Machine))
  /\ owned' = [x \in {} |-> 0]
  /\ last' = Call("reset", 0, NULL, NULL, 0, FALSE)
  /\ epoch_start' = brk
  /\ steps' = steps + 1
  /\ UNCHANGED <<pc, crashed, written>>
  /\ UNCHANGED guarded

\* the caller fills the payload it owns (memset(ptr, 'A', n) of the tests);
\* a block smaller than the request makes the caller write beyond it
Write(p) ==
  /\ Running
  /\ p \in DOMAIN owned
  /\ owned[p].data # "pattern"
  /\ owned' = [owned EXCEPT ![p].data = "pattern"]
  /\ written' = written \cup {p}
  /\ last' = Call("write", owned[p].req, p, NULL, BlockSize(p), BlockMapped(p))
  /\ pc' = IF owned[p].req > BlockSize(p) - HeaderSize THEN "corrupt" ELSE pc
  /\ steps' = steps + 1
  /\ UNCHANGED <<engine, epoch_start, crashed>>
  /\ UNCHANGED guarded

\* test_splitting of src/test.c, started from any state of the run
SplitReset ==
  /\ Running /\ steps < MaxPre
  /\ Commit(mem_reset(Machine))
  /\ owned' = [x \in {} |-> 0]
  /\ last' = Call("reset", 0, NULL, NULL, 0, FALSE)
  /\ epoch_start' = brk
  /\ pc' = "ptr1"
  /\ steps' = steps + 1
  /\ UNCHANGED <<crashed, written>>
  /\ UNCHANGED guarded

SplitMalloc1(granted) ==
  /\ pc = "ptr1"
  /\ \E r \in {mem_malloc(Machine, 100, granted)} :
       /\ Commit(r.m)
       /\ owned' = IF r.ret # NULL
                   THEN Put(owned, r.ret, [req |-> 100, data |-> "unspecified"])
                   ELSE owned
       /\ last' = Call("malloc", 100, NULL, r.ret, 0, FALSE)
  /\ pc' = "free1"
  /\ UNCHANGED <<steps, epoch_start, crashed, written>>
  /\ UNCHANGED guarded

SplitFree1 ==
  /\ pc = "free1"
  /\ \E m \in {mem_free(Machine, last.res)} : Commit(m)
  /\ owned' = IF last.res = NULL THEN owned ELSE Drop(owned, last.res)
  /\ last' = Call("free", 0, last.res, NULL, BlockSize(last.res), BlockMapped(last.res))
  /\ pc' = "ptr2"
  /\ UNCHANGED <<steps, epoch_start, crashed, written>>
  /\ UNCHANGED guarded

SplitMalloc2(granted) ==
  /\ pc = "ptr2"
  /\ \E r \in {mem_malloc(Machine, 50, granted)} :
       /\ Commit(r.m)
       /\ owned' = IF r.ret # NULL
                   THEN Put(owned, r.ret, [req |-> 50, data |-> "unspecified"])
                   ELSE owned
       /\ last' = Call("malloc", 50, NULL, r.ret, 0, FALSE)
  /\ pc' = "stats"
  /\ UNCHANGED <<steps, epoch_start, crashed, written>>
  /\ UNCHANGED guarded

Next ==
  \/ \E n \in MallocSizes, g \in BOOLEAN : Malloc(n, g)
  \/ \E a \in CallocArgs, g \in BOOLEAN : Calloc(a[1], a[2], g)
  \/ \E a \in CallocArgs, g \in BOOLEAN : CallocOverruns(a[1], a[2], g)
  \/ \E p \in (DOMAIN owned) \cup {NULL} : Free(p)
  \/ \E p \in DOMAIN owned : FreeDiverges(p)
  \/ \E p \in (DOMAIN owned) \cup {NULL}, n \in ReallocSizes, g \in BOOLEAN :
       Realloc(p, n, g)
  \/ \E p \in DOMAIN owned, n \in ReallocSizes, g \in BOOLEAN :
       ReallocDiverges(p, n, g)
  \/ Reset
  \/ \E p \in DOMAIN owned : Write(p)
  \/ SplitReset
  \/ \E g \in BOOLEAN : SplitMalloc1(g)
  \/ SplitFree1
  \/ \E g \in BOOLEAN : SplitMalloc2(g)

Spec == Init /\ [][Next]_vars

\* a caller that uses mem_malloc and mem_free only
NextAF ==
  \/ \E n \in MallocSizes, g \in BOOLEAN : Malloc(n, g)
  \/ \E p \in (DOMAIN owned) \cup {NULL} : Free(p)
  \/ \E p \in DOMAIN owned : FreeDiverges(p)

SpecAF == Init /\ [][NextAF]_vars

\* ------------------------------------------- the guarded operations (_ts)
\* the engine operation a guarded operation delegates to
engine_call(m, c) ==
  CASE c.op = "malloc" -> mem_malloc(m, c.n, c.g)
    [] c.op = "free" -> [m |-> mem_free(m, c.p), ret |-> NULL]
    [] c.op = "calloc" ->
         LET r == mem_calloc(m, c.k, c.n, c.g) IN [m |-> r.m, ret |-> r.ret]
    [] c.op = "realloc" ->
         LET r == mem_realloc(m, c.p, c.n, c.g) IN [m |-> r.m, ret |-> r.ret]

\* the engine operation does not return
engine_call_diverges(m, c) ==
  CASE c.op = "free" -> free_diverges(m, c.p)
    [] c.op = "realloc" -> realloc_diverges(m, c.p, c.n, c.g)
    [] OTHER -> FALSE

\* mutant of pthread_mutex_lock_returns: the lock never makes a thread wait
pthread_mutex_lock_never_waits(mx) == TRUE

\* pthread_mutex_lock(&allocator_mutex) returns only when no thread owns it
pthread_mutex_lock_returns(mx) == mx = NULL

\* addresses that are the argument of a guarded call in progress
Busy == {thr[t].call.p : t \in {u \in Threads : thr[u].pc # "idle"}}

\* the guarded calls a thread makes: the sizes of test_thread_safe_functions
\* and a size that makes size + sizeof(header) wrap to 0
GuardedCalls ==
  {GuardedCall("malloc", 0, n, NULL, g) : n \in {100, SIZE_MAX - 31}, g \in BOOLEAN}
  \cup {GuardedCall("calloc", 10, 20, NULL, g) : g \in BOOLEAN}
  \cup {GuardedCall("free", 0, 0, p, FALSE) : p \in (DOMAIN owned) \ Busy}
  \cup {GuardedCall("realloc", 0, n, p, g) :
           n \in {0, 200}, p \in (DOMAIN owned) \ Busy, g \in BOOLEAN}

\* thread t calls mem_malloc_ts, mem_free_ts, mem_calloc_ts or mem_realloc_ts
TsCall(t, c) ==
  /\ ~crashed /\ pc = "run" /\ steps < MaxCalls
  /\ thr[t].pc = "idle"
  /\ thr' = [thr EXCEPT ![t].pc = "lock", ![t].call = c]
  /\ steps' = steps + 1
  /\ UNCHANGED <<engine, owned, last, pc, epoch_start, crashed, written,
                 mutex, shadow>>

\* pthread_mutex_lock returns in thread t, which enters the engine operation:
\* it works on the engine state it finds
TsLock(t) ==
  /\ ~crashed
  /\ thr[t].pc = "lock"
  /\ pthread_mutex_lock_returns(mutex)
  /\ mutex' = t
  /\ \E r \in {IF engine_call_diverges(shadow.m, thr[t].call)
                THEN [m |-> shadow.m, ret |-> NULL]
                ELSE engine_call(shadow.m, thr[t].call)} :
       /\ shadow' = [m |-> r.m, turns |-> shadow.turns + 1]
       /\ thr' = [thr EXCEPT ![t].pc = "inside", ![t].snap = Machine,
                             ![t].expect = r.ret, ![t].turn = shadow.turns + 1]
  /\ UNCHANGED <<engine, owned, last, pc, steps, epoch_start, crashed, written>>

\* the engine operation of thread t returns, its updates are in memory
TsLeave(t) ==
  /\ ~crashed
  /\ thr[t].pc = "inside"
  /\ ~engine_call_diverges(thr[t].snap, thr[t].call)
  /\ \E r \in {engine_call(thr[t].snap, thr[t].call)} :
       /\ Commit(r.m)
       /\ thr' = [thr EXCEPT ![t].pc = "unlock", ![t].res = r.ret,
                             ![t].snap = InitMachine]
  /\ UNCHANGED <<owned, last, pc, steps, epoch_start, crashed, written,
                 mutex, shadow>>

\* the engine operation of thread t never returns: the process is killed (or
\* the thread spins for ever, which is this action never taken)
TsDiverges(t) ==
  /\ ~crashed
  /\ thr[t].pc = "inside"
  /\ engine_call_diverges(thr[t].snap, thr[t].call)
  /\ crashed' = TRUE
  /\ UNCHANGED <<engine, owned, last, pc, steps, epoch_start, written, guarded>>

\* pthread_mutex_unlock, and the guarded operation returns to its caller
TsUnlock(t) ==
  /\ ~crashed
  /\ thr[t].pc = "unlock"
  /\ mutex' = NULL
  /\ thr' = [thr EXCEPT ![t].pc = "idle"]
  /\ owned' =
       LET c == thr[t].call
           res == thr[t].res
           got == [req |-> IF c.op = "calloc" THEN c.k * c.n ELSE c.n,
                   data |-> "unspecified"]
       IN IF c.op = "free" THEN Drop(owned, c.p)
          ELSE IF c.op = "realloc" /\ c.p # NULL
          THEN IF c.n = 0 THEN Drop(owned, c.p)
               ELSE IF res = NULL \/ res = c.p THEN owned
               ELSE Put(Drop(owned, c.p), res, got)
          ELSE IF res # NULL THEN Put(owned, res, got) ELSE owned
  /\ UNCHANGED <<engine, last, pc, steps, epoch_start, crashed, written, shadow>>

NextTS ==
  \/ \E t \in Threads : \E c \in GuardedCalls : TsCall(t, c)
  \/ \E t \in Threads : TsLock(t)
  \/ \E t \in Threads : TsLeave(t)
  \/ \E t \in Threads : TsDiverges(t)
  \/ \E t \in Threads : TsUnlock(t)

SpecTS == Init /\ [][NextTS]_vars

\* ENABLED <<TsLock(t)>>_vars and ENABLED <<TsLeave(t)>>_vars, written out
LockEnabled(t) ==
  ~crashed /\ thr[t].pc = "lock" /\ pthread_mutex_lock_returns(mutex)
LeaveEnabled(t) ==
  /\ ~crashed /\ thr[t].pc = "inside"
  /\ ~engine_call_diverges(thr[t].snap, thr[t].call)

\* fair scheduling: a thread that waits for the mutex gets it when it is free
\* again and again (strong fairness of TsLock), an engine operation that can
\* return does (weak fairness of TsLeave), and so does pthread_mutex_unlock
SpecTSFair ==
  /\ SpecTS
  /\ \A t \in Threads :
       /\ <>[](~LockEnabled(t)) \/ []<><<TsLock(t)>>_vars
       /\ []<>(~LeaveEnabled(t)) \/ []<><<TsLeave(t)>>_vars
       /\ WF_vars(TsUnlock(t))

\* ------------------------------------------------------- derived notions
\* heap blocks created since program start or the last mem_reset
HeapBlocks == {a \in DOMAIN hdr : a >= epoch_start /\ a < MmapBase}

\* the blocks behind the addresses the caller owns
OwnedBlocks == {p - HeaderSize : p \in DOMAIN owned}

RECURSIVE ListFrom(_, _)
ListFrom(a, seen) ==
  IF a = NULL \/ a \in seen THEN seen ELSE ListFrom(hdr[a].next, seen \cup {a})

\* the blocks reachable from free_lists[i]
Listed(i) == ListFrom(free_lists[i], {})
AllListed == UNION {Listed(i) : i \in 0..(NUM_SIZE_CLASSES - 1)}

\* bytes of a block: its header and its payload
Extent(b) == IF hdr[b].size > HeaderSize THEN hdr[b].size ELSE HeaderSize
Overlap(a, b) == a < b + Extent(b) /\ b < a + Extent(a)

\* rounded block size of a request, in unbounded arithmetic
Rounded(n) == ((n + HeaderSize + ALIGNMENT - 1) \div ALIGNMENT) * ALIGNMENT

\* ------------------------------------------------------------------ claims

\* C1: the byte ranges (header plus payload) of any two blocks the caller owns
\* are disjoint, and no block the caller owns overlaps a block reachable from
\* a free list.
C1_LiveBlocksDisjoint ==
  /\ \A a \in OwnedBlocks : \A b \in OwnedBlocks : a # b => ~Overlap(a, b)
  /\ \A a \in OwnedBlocks : \A f \in AllListed : ~Overlap(a, f)

\* C2: whenever mem_malloc(n) returns a non-null address, the block behind it
\* has size >= align16(n + H) computed without wrap-around, so its payload
\* capacity size - H is at least n.
C2_CapacityCoversRequest ==
  (last.op = "malloc" /\ last.res # NULL) =>
     /\ hdr[last.res - HeaderSize].size >= Rounded(last.n)
     /\ hdr[last.res - HeaderSize].size - HeaderSize >= last.n

\* C3: every heap block whose is_free flag is set is reachable from exactly
\* one free list, the list of the size class of its size (the first sentence
\* of the claim; it is the one an allocate that extends the heap breaks).
C3_FreeBlocksListed ==
  \A b \in HeapBlocks :
    hdr[b].is_free # 0 =>
      \A i \in 0..(NUM_SIZE_CLASSES - 1) :
        (b \in Listed(i)) <=> (i = get_size_class(hdr[b].size))

\* C4: every block reachable from free list i has is_free set, is not mapped
\* and has a size of class i.
C4_ListMembersFreeAndClassed ==
  \A i \in 0..(NUM_SIZE_CLASSES - 1) : \A b \in Listed(i) :
    /\ hdr[b].is_free # 0
    /\ hdr[b].is_mmap = 0
    /\ get_size_class(hdr[b].size) = i

\* C5: current_usage equals total_allocated minus total_freed (in size_t
\* arithmetic) between any two calls.
C5_UsageIsAllocatedMinusFreed ==
  stats.current_usage = (stats.total_allocated - stats.total_freed) % WordMod

\* a mapped block has just been released while a heap block is still in use
C5_Witness ==
  /\ last.op = "free" /\ last.mapped
  /\ stats.current_usage > 0
  /\ stats.total_freed = last.bsize

\* C6 as claimed: no free heap block is immediately followed in memory by
\* another free heap block.
C6_NoAdjacentFreeBlocks ==
  \A b \in HeapBlocks :
    hdr[b].is_free # 0 =>
      LET nx == b + hdr[b].size
      IN ~(nx # b /\ nx \in HeapBlocks /\ hdr[nx].is_free # 0)

\* a release of a block that came from the heap has just returned
ReleasedHeapBlock ==
  /\ \/ last.op = "free"
     \/ last.op = "realloc" /\ last.n = 0
  /\ last.p # NULL
  /\ ~last.mapped

\* C6 as amended: right after mem_free of a heap block, the block it put at
\* the head of a free list is free and its successor in memory, if any, is
\* not free (only the forward neighbour is merged).
C6_ReleasedBlockHasNoFreeSuccessor ==
  ReleasedHeapBlock =>
    LET b == last.p - HeaderSize
        nx == b + hdr[b].size
    IN /\ hdr[b].is_free # 0
       /\ free_lists[get_size_class(hdr[b].size)] = b
       /\ nx < heap_end => hdr[nx].is_free = 0

\* a release that merged the block with its forward neighbour
C6_Witness ==
  /\ last.op = "free" /\ last.p # NULL /\ ~last.mapped
  /\ hdr[last.p - HeaderSize].size > last.bsize
  /\ last.p - HeaderSize + hdr[last.p - HeaderSize].size < heap_end

\* C7 as claimed: test_splitting reads num_splits = 1 after its second
\* allocation when both allocations succeeded.
C7_SplitCounterIsOne ==
  (pc = "stats" /\ stats.num_allocations = 2) => stats.num_splits = 1

\* C7 as amended: when both allocations of test_splitting succeed, num_splits
\* is 2: the first allocation splits the block the heap was extended by, the
\* second splits the released block.
C7_SplitCounterIsTwo ==
  (pc = "stats" /\ stats.num_allocations = 2) => stats.num_splits = 2

\* test_splitting ran to its statistics read after an earlier run grew the heap
C7_Witness ==
  /\ pc = "stats" /\ stats.num_allocations = 2
  /\ epoch_start > HeapBase

\* request sizes whose rounded block size is R
ProbeSizes(R) ==
  {n \in MallocSizes \cup {R - HeaderSize} :
     n > 0 /\ align_size((n + HeaderSize) % WordMod) = R}

\* C8: right after the release of a heap block of size R, mem_malloc of any
\* request with rounded size R returns an address and leaves the heap bounds
\* alone, with the OS refusing every request.
C8_ReleaseThenAllocateSucceeds ==
  ReleasedHeapBlock =>
    \A n \in ProbeSizes(last.bsize) :
      LET r == mem_malloc(Machine, n, FALSE)
      IN /\ r.ret # NULL
         /\ r.m.heap_end = heap_end
         /\ r.m.heap_start = heap_start
         /\ r.m.brk = brk

\* a released block that was not merged, with requests of its rounded size
C8_Witness ==
  /\ ReleasedHeapBlock
  /\ ProbeSizes(last.bsize) # {}
  /\ hdr[last.p - HeaderSize].size = last.bsize
  /\ ~os_sbrk(Machine, FALSE)

\* C9: a mem_realloc(p, n) that needs a larger block and returns NULL leaves
\* the old block, the free lists, the heap bounds, the counters and the
\* caller's payload as they were.
C9_FailedResizeChangesNothing ==
  [][ ( /\ last'.op = "realloc" /\ steps' = steps + 1
        /\ last'.p # NULL
        /\ last'.n > BlockSize(last'.p) - HeaderSize
        /\ last'.res = NULL )
      => ( /\ UNCHANGED engine
           /\ owned' = owned
           /\ hdr'[last'.p - HeaderSize].is_free = 0 ) ]_vars

\* a resize of a written block failed for want of memory
C9_Witness ==
  /\ last.op = "realloc" /\ last.p # NULL /\ last.res = NULL
  /\ last.n > last.bsize - HeaderSize
  /\ last.p \in DOMAIN owned
  /\ owned[last.p].data = "pattern"

C11_GrowingResizeKeepsPayload ==
  [][ ( /\ last'.op = "realloc" /\ steps' = steps + 1
        /\ last'.p \in DOMAIN owned
        /\ last'.n > owned[last'.p].req
        /\ last'.res # NULL )
      => ( /\ owned'[last'.res].data = owned[last'.p].data
           /\ last'.res # last'.p =>
                /\ last'.p \notin DOMAIN owned'
                /\ stats'.num_frees = stats.num_frees + 1
                /\ (last'.p - HeaderSize) \in DOMAIN hdr' =>
                      hdr'[last'.p - HeaderSize].is_free # 0
                /\ hdr'[last'.res - HeaderSize].size - HeaderSize >= last'.n ) ]_vars

\* C12: mem_realloc(NULL, n) returns what mem_malloc(n) returns and leaves the
\* engine in the state mem_malloc(n) leaves it in (for the same answer of the
\* OS); mem_realloc(p, 0) with p non-null returns NULL and leaves the engine
\* in the state mem_free(p) leaves it in.
C12_ResizeDegeneratesToAllocateAndRelease ==
  [][ ( last'.op = "realloc" /\ steps' = steps + 1 )
      => ( /\ last'.p = NULL =>
                \E g \in BOOLEAN :
                   /\ last'.res = mem_malloc(Machine, last'.n, g).ret
                   /\ Machine' = mem_malloc(Machine, last'.n, g).m
           /\ (last'.p # NULL /\ last'.n = 0) =>
                /\ last'.res = NULL
                /\ Machine' = mem_free(Machine, last'.p) ) ]_vars

\* a resize to 0 has released a heap block that was merged with its successor
C12_Witness ==
  /\ last.op = "realloc" /\ last.p # NULL /\ last.n = 0 /\ last.res = NULL
  /\ ~last.mapped
  /\ hdr[last.p - HeaderSize].size > last.bsize
  /\ stats.num_frees = 1

\* counts and element sizes around the limits of the machine word
CallocProbes == {0, 1, 3, 4096, WordMod \div 4096 + 1, SIZE_MAX}

\* the true product nmemb * size is at most SIZE_MAX
ProductFits(nmemb, size) == nmemb = 0 \/ size <= SIZE_MAX \div nmemb

\* C13: in every state and for all counts and element sizes, mem_calloc
\* returns NULL and changes nothing when the true product does not fit in the
\* word, and otherwise is mem_malloc of exactly the product (and clears
\* exactly that many bytes when it gets a block).
C13_OverflowCheckIsExact ==
  \A nmemb \in CallocProbes, size \in CallocProbes, g \in BOOLEAN :
    LET r == mem_calloc(Machine, nmemb, size, g)
        a == mem_malloc(Machine, nmemb * size, g)
    IN IF ~ProductFits(nmemb, size)
       THEN r.ret = NULL /\ r.m = Machine /\ r.zeroed = 0
       ELSE /\ r.ret = a.ret
            /\ r.m = a.m
            /\ r.zeroed = IF a.ret # NULL THEN nmemb * size ELSE 0

\* a zeroed allocation whose product wraps to a small size was refused while
\* the heap had a free block that would have served the wrapped size
C13_Witness ==
  /\ last.op = "calloc" /\ last.n > SIZE_MAX /\ last.res = NULL
  /\ find_free_block(Machine, align_size((last.n % WordMod) + HeaderSize)) # NULL

\* C14: the block a mem_calloc(count, elem_size) has just returned holds
\* count * elem_size payload bytes that are all 0.
C14_ZeroedAllocateIsZero ==
  (last.op = "calloc" /\ last.res # NULL) =>
     /\ owned[last.res].req = last.n
     /\ owned[last.res].data = "zero"

\* the zeroed block is at an address a previous owner filled with non-zero
\* bytes before releasing it
C14_Witness ==
  /\ last.op = "calloc" /\ last.res # NULL
  /\ last.res \in written
  /\ stats.num_frees > 0
  /\ owned[last.res].data = "zero"

\* C15: with threads that call the guarded operations only, at most one
\* thread is inside an engine operation at any instant.
C15_OneThreadInsideTheEngine ==
  Cardinality({t \in Threads : thr[t].pc = "inside"}) <= 1

\* one thread is inside the engine while another waits for the mutex
C15_Witness ==
  \E t \in Threads, u \in Threads :
    /\ thr[t].pc = "inside" /\ thr[u].pc = "lock"
    /\ thr[t].call.op = "malloc" /\ thr[u].call.op = "malloc"

\* C16: the result of every guarded call that has returned from the engine,
\* and the engine state whenever the mutex is free, are those of running the
\* guarded calls one after the other in the order in which they got the mutex.
C16_GuardedCallsAreSequential ==
  /\ mutex = NULL => Machine = shadow.m
  /\ \A t \in Threads :
       thr[t].pc \in {"unlock", "idle"} => thr[t].res = thr[t].expect

\* two threads got blocks in turns, the higher-numbered thread first, and a
\* third call has returned since
C16_Witness ==
  /\ mutex = NULL
  /\ shadow.turns = MaxCalls
  /\ \A t \in Threads : thr[t].pc = "idle"
  /\ \E t \in Threads, u \in Threads :
       /\ t < u /\ thr[t].turn > thr[u].turn /\ thr[u].turn > 0
       /\ thr[t].res # NULL /\ thr[u].res # NULL
  /\ stats.num_allocations >= 2

\* C17: under fair scheduling every thread that has called a guarded
\* operation eventually returns from it.
C17_EveryGuardedCallReturns ==
  \A t \in Threads : (thr[t].pc # "idle") ~> (thr[t].pc = "idle")

\* zero size, zero factors, a product that wraps, and the sizes of the caller
FailureProbes == MallocSizes \cup {0, 1}
FailureProbePairs == CallocArgs \cup {<<0, 50>>, <<10, 0>>}

\* the counters, the free lists and the heap bounds of m are those of the state
SameBookkeeping(m) ==
  /\ m.stats = stats
  /\ m.free_lists = free_lists
  /\ m.heap_start = heap_start
  /\ m.heap_end = heap_end

\* C18: in every state, a mem_malloc or mem_calloc that returns NULL (zero
\* size, zero factor, wrapped product, sbrk or mmap refused) leaves all seven
\* counters, all ten free lists and the heap bounds as they were, and so does
\* mem_free(NULL).
C18_FailureChangesNothing ==
  /\ \A n \in FailureProbes, g \in BOOLEAN :
       LET r == mem_malloc(Machine, n, g)
       IN r.ret = NULL => SameBookkeeping(r.m)
  /\ \A a \in FailureProbePairs, g \in BOOLEAN :
       LET r == mem_calloc(Machine, a[1], a[2], g)
       IN r.ret = NULL => SameBookkeeping(r.m)
  /\ SameBookkeeping(mem_free(Machine, NULL))

\* the OS has refused to extend a heap that holds blocks in use and free
\* blocks, none of them large enough
C18_Witness ==
  /\ last.op = "malloc" /\ last.res = NULL /\ last.n < MMAP_THRESHOLD
  /\ stats.num_allocations > 0
  /\ AllListed # {}

\* C19: every block in memory (in use or free, heap or mapped) has
\* size >= sizeof(header) + MIN_BLOCK_SIZE.
C19_BlocksHaveMinimumSize ==
  \A b \in DOMAIN hdr : hdr[b].size >= HeaderSize + MIN_BLOCK_SIZE

\* C20: every block starts at a multiple of 16 and has a size that is a
\* multiple of 16, the heap ends at a multiple of 16, and every address the
\* caller holds or has just been given is a multiple of 16.
C20_SizesAndAddressesAligned ==
  /\ \A b \in DOMAIN hdr : b % ALIGNMENT = 0 /\ hdr[b].size % ALIGNMENT = 0
  /\ heap_end % ALIGNMENT = 0
  /\ \A p \in DOMAIN owned : p % ALIGNMENT = 0
  /\ last.res % ALIGNMENT = 0

\* the heap was extended by more than 64 KiB for a block that is in use, after
\* a split and a coalesce
C20_Witness ==
  /\ last.op \in {"malloc", "realloc"} /\ last.res # NULL
  /\ hdr[last.res - HeaderSize].is_mmap = 0
  /\ hdr[last.res - HeaderSize].size > BRK_INCREMENT
  /\ last.res - HeaderSize + hdr[last.res - HeaderSize].size = heap_end
  /\ (heap_end - heap_start) % BRK_INCREMENT # 0
  /\ stats.num_splits > 0 /\ stats.num_coalesces > 0

\* the free block mem_malloc(n) selects when the heap serves the request and
\* the OS grants an extension: the first fit, or the block the heap grows by
SelectedBlock(n) ==
  LET total_size == align_size((n + HeaderSize) % WordMod)
      found == find_free_block(Machine, total_size)
  IN IF found # NULL THEN [m |-> Machine, ret |-> found]
     ELSE expand_heap(Machine, total_size, TRUE)

\* C21: when mem_malloc selects a free block B for rounded size R, it splits
\* iff B.size >= R + H + 32; a split leaves an in-use block of size R at B and
\* one new free block of size B.size - R at B + R at the head of the free list
\* of its size class, adds one to num_splits and conserves the bytes; without
\* a split the caller gets B with its size unchanged.
C21_SplitIsExact ==
  [][ ( /\ last'.op = "malloc" /\ (steps' # steps \/ pc' # pc)
        /\ last'.res # NULL
        /\ hdr'[last'.res - HeaderSize].is_mmap = 0 )
      => LET R == align_size((last'.n + HeaderSize) % WordMod)
             e == SelectedBlock(last'.n)
             B == e.ret
             S == e.m.hdr[B].size
         IN /\ B = last'.res - HeaderSize
            /\ hdr'[B].is_free = 0
            /\ IF S >= R + HeaderSize + MIN_BLOCK_SIZE
               THEN /\ hdr'[B].size = R
                    /\ (B + R) \in DOMAIN hdr'
                    /\ hdr'[B + R].size = S - R
                    /\ hdr'[B + R].is_free # 0
                    /\ hdr'[B + R].is_mmap = 0
                    /\ free_lists'[get_size_class(S - R)] = B + R
                    /\ stats'.num_splits = stats.num_splits + 1
                    /\ hdr'[B].size + hdr'[B + R].size = S
               ELSE /\ hdr'[B].size = S
                    /\ stats'.num_splits = stats.num_splits ]_vars

\* a call has just returned (every call is a step of the run or of test_splitting)
CallReturns == steps' # steps \/ pc' # pc

\* the call that returns allocates a mapped block and does nothing else
AllocatesMapped ==
  /\ CallReturns
  /\ \/ last'.op = "malloc"
     \/ last'.op = "realloc" /\ last'.p = NULL
  /\ last'.res # NULL
  /\ hdr'[last'.res - HeaderSize].is_mmap # 0

\* the call that returns releases a mapped block and does nothing else
ReleasesMapped ==
  /\ CallReturns
  /\ \/ last'.op = "free"
     \/ last'.op = "realloc" /\ last'.n = 0
  /\ last'.p # NULL
  /\ last'.mapped

\* C22: mem_malloc serves a request by a mapped block exactly when the rounded
\* block size of the request is >= 128 KiB; allocating or releasing a mapped block
\* leaves every free list, the heap bounds, num_splits, num_coalesces and every
\* other block as they were; no mapped block is reachable from a free list; and
\* a mapped block stays as it is until a release of its own address unmaps it.
C22_MappedBlocksStayApart ==
  [][ /\ ( CallReturns /\ last'.op = "malloc" /\ last'.res # NULL )
           => ( hdr'[last'.res - HeaderSize].is_mmap # 0
                <=> Rounded(last'.n) >= MMAP_THRESHOLD )
      /\ ( AllocatesMapped \/ ReleasesMapped )
           => /\ free_lists' = free_lists
              /\ heap_start' = heap_start /\ heap_end' = heap_end /\ brk' = brk
              /\ stats'.num_splits = stats.num_splits
              /\ stats'.num_coalesces = stats.num_coalesces
              /\ \A b \in DOMAIN hdr :
                   hdr[b].is_mmap = 0 => (b \in DOMAIN hdr' /\ hdr'[b] = hdr[b])
      /\ \A b \in AllListed' : hdr'[b].is_mmap = 0
      /\ \A b \in DOMAIN hdr :
           hdr[b].is_mmap # 0 =>
             IF b \in DOMAIN hdr'
             THEN hdr'[b] = hdr[b]
             ELSE /\ CallReturns
                  /\ last'.op \in {"free", "realloc"}
                  /\ last'.p = b + HeaderSize ]_vars

\* the blocks met by stepping from block a to its successor in memory
RECURSIVE Chain(_, _)
Chain(a, seen) ==
  IF a \in seen \/ a \notin DOMAIN hdr THEN seen
  ELSE Chain(a + hdr[a].size, seen \cup {a})

\* the heap blocks tile the region grown since the last mem_reset
HeapTiled ==
  IF brk = epoch_start THEN HeapBlocks = {}
  ELSE /\ heap_end = brk
       /\ epoch_start \in HeapBlocks
       /\ Chain(epoch_start, {}) = HeapBlocks
       /\ \A b \in HeapBlocks :
            /\ hdr[b].is_mmap = 0
            /\ hdr[b].size > 0
            /\ \/ b + hdr[b].size = heap_end
               \/ (b + hdr[b].size) \in HeapBlocks

\* C23: between resets the heap blocks tile the heap region: the first block
\* starts where the region grown since the last reset starts, the successor of
\* each block starts at block address + size, the last block ends at heap_end;
\* and heap_end never decreases and grows by max(64 KiB, rounded request) when
\* a call extends the heap.
C23_HeapBlocksTileTheHeap ==
  /\ []HeapTiled
  /\ [][ /\ heap_end' >= heap_end
         /\ heap_end' # heap_end =>
              /\ last'.op \in {"malloc", "calloc", "realloc"}
              /\ heap_end' = brk + (IF Rounded(last'.n) > BRK_INCREMENT
                                    THEN Rounded(last'.n) ELSE BRK_INCREMENT) ]_vars

\* how far the heap had grown when mem_reset was last called
Shift == epoch_start - HeapBase

\* the blocks made since the last mem_reset: the heap blocks of the region
\* grown since, and the mapped blocks the caller owns
BlocksSinceReset ==
  {b \in DOMAIN hdr : IF b >= MmapBase THEN (b + HeaderSize) \in DOMAIN owned
                      ELSE b >= epoch_start}

\* the mappings below address a that were made before the last mem_reset and
\* never unmapped: a fresh process has these regions free
MappedBefore(a) ==
  {j \in 0..(MaxMaps - 1) :
     /\ MmapSlot(j) + WordMod <= a
     /\ MmapSlot(j) \in DOMAIN hdr
     /\ MmapSlot(j) \notin BlocksSinceReset}

\* an address obtained after the last mem_reset, as the same calls on a
\* freshly started allocator obtain it: heap addresses lie Shift lower, and
\* a mapping lies lower by the regions that are still mapped from before
Down(a) ==
  IF a = NULL THEN NULL
  ELSE IF a >= MmapBase THEN a - WordMod * Cardinality(MappedBefore(a))
  ELSE a - Shift
Up(x) == CHOOSE b \in BlocksSinceReset : Down(b) = x

\* the engine of a freshly started allocator after the calls made since the
\* last mem_reset: the blocks made since, at the addresses a fresh heap gives
\* them, with the free lists, the counters and the heap bounds of a heap that
\* started at the initial break
FreshImage ==
  [hdr |-> [x \in {Down(b) : b \in BlocksSinceReset} |->
              [hdr[Up(x)] EXCEPT !.next = Down(@), !.prev = Down(@)]],
   free_lists |-> [i \in 0..(NUM_SIZE_CLASSES - 1) |-> Down(free_lists[i])],
   stats |-> stats,
   heap_start |-> IF brk = epoch_start THEN NULL ELSE HeapBase,
   heap_end |-> IF brk = epoch_start THEN NULL ELSE heap_end - Shift,
   brk |-> brk - Shift]

\* C24: mem_reset zeroes the seven counters and empties the ten free lists and
\* leaves the heap bounds alone; from then on every call on addresses obtained
\* since the reset returns null or non-null, and leaves the counters (and the
\* free lists and blocks, address for address), as the same call does on a
\* freshly started allocator that went through the same calls and got the same
\* answers from the OS, whatever blocks the heap held before the reset.
C24_ResetStartsAfresh ==
  [][ CallReturns =>
        /\ last'.op = "reset" =>
             /\ stats' = ZeroStats
             /\ \A i \in 0..(NUM_SIZE_CLASSES - 1) : free_lists'[i] = NULL
             /\ heap_start' = heap_start /\ heap_end' = heap_end /\ brk' = brk
             /\ FreshImage' = InitMachine
        /\ last'.op = "malloc" =>
             \E g \in BOOLEAN :
                /\ FreshImage' = mem_malloc(FreshImage, last'.n, g).m
                /\ Down(last'.res) = mem_malloc(FreshImage, last'.n, g).ret
        /\ last'.op = "calloc" =>
             \E a \in CallocArgs, g \in BOOLEAN :
                /\ a[1] * a[2] = last'.n
                /\ FreshImage' = mem_calloc(FreshImage, a[1], a[2], g).m
                /\ Down(last'.res) = mem_calloc(FreshImage, a[1], a[2], g).ret
        /\ last'.op = "free" =>
             FreshImage' = mem_free(FreshImage, Down(last'.p))
        /\ last'.op = "realloc" =>
             \E g \in BOOLEAN :
                /\ FreshImage' = mem_realloc(FreshImage, Down(last'.p), last'.n, g).m
                /\ Down(last'.res) =
                     mem_realloc(FreshImage, Down(last'.p), last'.n, g).ret ]_vars

\* after a reset of a heap that held a block in use and a free block, a block
\* obtained since the reset has been released and merged with its successor
C24_Witness ==
  /\ epoch_start > HeapBase
  /\ \E b \in DOMAIN hdr : b < epoch_start /\ hdr[b].is_free # 0
  /\ \E b \in DOMAIN hdr : b < epoch_start /\ hdr[b].is_free = 0
  /\ last.op = "free" /\ last.p # NULL /\ ~last.mapped
  /\ stats.num_allocations = 1 /\ stats.num_frees = 1
  /\ stats.num_coalesces = 1

====
